---- MODULE Spec2Model ----
(***************************************************************************)
(* Model of skyeye/utils/scheduler.py: the learning-rate schedules         *)
(* MultiStepMultiGammaLR and BurnInLR, on top of the scheduler base class  *)
(* of torch (LRScheduler, torch >= 2.0, imported at scheduler.py:10).      *)
(*                                                                         *)
(* Rates are Python floats.  They are modelled as IEEE-754 binary64        *)
(* values (non-negative, finite, normal) with round-to-nearest-even, the   *)
(* 53-bit significand held as a little-endian sequence of 12-bit limbs.    *)
(***************************************************************************)
EXTENDS Integers, Sequences, FiniteSets

\* ------------------------------------------------------------------ bounds
MaxEpoch == 4
MaxMilestone == 2
MaxLen == 2
MaxSteps == 3

\* --------------------------------------------------- natural numbers (limbs)
\* TLC evaluates an operator's arguments and LET definitions by name, at every
\* use.  A value that is used more than once is therefore bound by a quantifier
\* over a singleton set, which evaluates it once; Pick takes the result out.
Pick(S) == CHOOSE r \in S : TRUE

Limb == 2^12
LimbBits == 12
MantBits == 53

\* a natural number is the sequence of its limbs, lowest first, the last not 0
RECURSIVE TrimLen(_, _)
TrimLen(a, n) == IF n = 0 THEN 0 ELSE IF a[n] = 0 THEN TrimLen(a, n - 1) ELSE n

BTrim(a) == Pick({SubSeq(v, 1, TrimLen(v, Len(v))) : v \in {a}})

RECURSIVE BFromNat(_)
BFromNat(n) == IF n = 0 THEN <<>> ELSE <<n % Limb>> \o BFromNat(n \div Limb)

BAt(a, i) == IF i <= Len(a) THEN a[i] ELSE 0

\* limbs i.. of a + b, c carried in
RECURSIVE BAddAt(_, _, _, _)
BAddAt(a, b, i, c) ==
  IF i > Len(a) /\ i > Len(b) THEN (IF c = 0 THEN <<>> ELSE <<c>>)
  ELSE Pick({<<x % Limb>> \o BAddAt(a, b, i + 1, x \div Limb) :
               x \in {BAt(a, i) + BAt(b, i) + c}})

BAdd(a, b) == Pick({BAddAt(x, y, 1, 0) : x \in {a}, y \in {b}})

\* limbs i.. of a - b for a >= b, c borrowed
RECURSIVE BSubAt(_, _, _, _)
BSubAt(a, b, i, c) ==
  IF i > Len(a) THEN <<>>
  ELSE Pick({<<x % Limb>> \o BSubAt(a, b, i + 1, IF x < 0 THEN 1 ELSE 0) :
               x \in {a[i] - BAt(b, i) - c}})

BSub(a, b) == BTrim(Pick({BSubAt(x, y, 1, 0) : x \in {a}, y \in {b}}))

\* limbs i.. of a * k for 0 <= k < Limb, c carried in
RECURSIVE BMulSmallAt(_, _, _, _)
BMulSmallAt(a, k, i, c) ==
  IF i > Len(a) THEN (IF c = 0 THEN <<>> ELSE <<c>>)
  ELSE Pick({<<x % Limb>> \o BMulSmallAt(a, k, i + 1, x \div Limb) :
               x \in {a[i] * k + c}})

BMulSmall(a, k) == BTrim(Pick({BMulSmallAt(x, y, 1, 0) : x \in {a}, y \in {k}}))

BShiftLimb(a) == Pick({IF x = <<>> THEN <<>> ELSE <<0>> \o x : x \in {a}})

\* a * (limbs j.. of b)
RECURSIVE BMulAt(_, _, _)
BMulAt(a, b, j) ==
  IF j > Len(b) THEN <<>>
  ELSE BAdd(BMulSmall(a, b[j]), BShiftLimb(BMulAt(a, b, j + 1)))

BMul(a, b) == Pick({BMulAt(x, y, 1) : x \in {a}, y \in {b}})

\* quotient (limbs 1..i) and remainder of (r, limbs 1..i of a) by d, 0 < d < 2^19
RECURSIVE BDivAt(_, _, _, _)
BDivAt(a, d, i, r) ==
  IF i = 0 THEN [q |-> <<>>, r |-> r]
  ELSE Pick(UNION {{[q |-> lo.q \o <<cur \div d>>, r |-> lo.r] :
                      lo \in {BDivAt(a, d, i - 1, cur % d)}} :
                   cur \in {r * Limb + a[i]}})

BDivSmall(a, d) ==
  Pick({[q |-> BTrim(x.q), r |-> x.r] :
          x \in UNION {{BDivAt(v, w, Len(v), 0) : v \in {a}} : w \in {d}}})

RECURSIVE SmallBitLen(_)
SmallBitLen(n) == IF n = 0 THEN 0 ELSE 1 + SmallBitLen(n \div 2)

BitLen(a) ==
  Pick({IF v = <<>> THEN 0 ELSE (Len(v) - 1) * LimbBits + SmallBitLen(v[Len(v)]) :
          v \in {a}})

Zeros(n) == [i \in 1..n |-> 0]

BShl(a, n) ==
  Pick({IF v = <<>> THEN <<>>
        ELSE Zeros(k \div LimbBits) \o BMulSmall(v, 2^(k % LimbBits)) :
          v \in {a}, k \in {n}})

BShr(a, n) ==
  Pick({IF k \div LimbBits >= Len(v) THEN <<>>
        ELSE BDivSmall(SubSeq(v, k \div LimbBits + 1, Len(v)), 2^(k % LimbBits)).q :
          v \in {a}, k \in {n}})

\* -1, 0, 1 as limbs 1..i of a are below, equal to, above those of b
RECURSIVE BCmpAt(_, _, _)
BCmpAt(a, b, i) ==
  IF i = 0 THEN 0
  ELSE IF a[i] < b[i] THEN -1
  ELSE IF a[i] > b[i] THEN 1
  ELSE BCmpAt(a, b, i - 1)

BCmp(a, b) ==
  Pick({IF Len(x) # Len(y) THEN (IF Len(x) < Len(y) THEN -1 ELSE 1)
        ELSE BCmpAt(x, y, Len(x)) : x \in {a}, y \in {b}})

\* ----------------------------------------------------------- binary64 floats
\* A float is [m, e] with value m * 2^e; m = <<>> (zero, e = 0) or BitLen(m) = 53.
FZero == [m |-> <<>>, e |-> 0]

\* m / 2^s is rounded up: its remainder is above the half, or at it and q is odd
RoundsUp(m, s, q) ==
  Pick({c > 0 \/ (c = 0 /\ q[1] % 2 = 1) :
          c \in {BCmp(BSub(m, BShl(q, s)), BShl(<<1>>, s - 1))}})

\* the rounded quotient q2 of m by 2^s, renormalised when it reached 2^53
RoundQ(e, s, q2) ==
  IF BitLen(q2) > MantBits THEN [m |-> BShr(q2, 1), e |-> e + s + 1]
  ELSE [m |-> q2, e |-> e + s]

\* m of n > 53 bits
RoundN(m, e, s) ==
  Pick(UNION {{RoundQ(e, s, q2) :
                 q2 \in {IF RoundsUp(m, s, q) THEN BAdd(q, <<1>>) ELSE q}} :
              q \in {BShr(m, s)}})

\* the float nearest to the exact value m * 2^e, ties to even
Round(m, e) ==
  Pick(UNION {{IF v = <<>> THEN FZero
               ELSE IF n <= MantBits
               THEN [m |-> BShl(v, MantBits - n), e |-> x - (MantBits - n)]
               ELSE RoundN(v, x, n - MantBits) : n \in {BitLen(v)}} :
              v \in {m}, x \in {e}})

IntToFloat(n) == Round(BFromNat(n), 0)

FMul(a, b) == Pick({Round(BMul(x.m, y.m), x.e + y.e) : x \in {a}, y \in {b}})

FMin(x, y) == IF x < y THEN x ELSE y

\* the exact sum (sign 1) or difference (sign -1, a >= b) of a and b, rounded
FAddSub(a, b, sign) ==
  Pick(UNION {{IF y.m = <<>> THEN x
               ELSE IF x.m = <<>> THEN y
               ELSE IF sign = 1
               THEN Round(BAdd(BShl(x.m, x.e - lo), BShl(y.m, y.e - lo)), lo)
               ELSE Round(BSub(BShl(x.m, x.e - lo), BShl(y.m, y.e - lo)), lo) :
                 lo \in {FMin(x.e, y.e)}} :
              x \in {a}, y \in {b}})

FAdd(a, b) == FAddSub(a, b, 1)

\* a - b for a >= b
FSub(a, b) == FAddSub(a, b, -1)

\* a / n for an int n > 0 (the int converts exactly); one sticky bit is appended
\* to the truncated quotient when the division is inexact
FDivInt(a, n) ==
  Pick(UNION {{IF v.m = <<>> THEN FZero
               ELSE IF x.r = 0 THEN Round(x.q, v.e - 2 * LimbBits)
               ELSE Round(BAdd(BShl(x.q, 1), <<1>>), v.e - 2 * LimbBits - 1) :
                 x \in {BDivSmall(BShl(v.m, 2 * LimbBits), n)}} :
              v \in {a}})

\* a <= b
FLe(a, b) ==
  Pick({IF x.m = <<>> THEN TRUE
        ELSE IF y.m = <<>> THEN FALSE
        ELSE x.e < y.e \/ (x.e = y.e /\ BCmp(x.m, y.m) <= 0) : x \in {a}, y \in {b}})

\* the float a decimal literal num/den denotes
Lit(num, den) == FDivInt(IntToFloat(num), den)

\* ------------------------------------------------------------ input values
\* epoch=None, the default argument of step
None == -1
\* a parameter group without the key initial_lr
Unset == [m |-> <<>>, e |-> -1]
One == IntToFloat(1)

\* the optimizer's learning rate of each parameter group before any schedule
Lrs == <<Lit(5, 100), Lit(3, 10)>>
GammaVals == {Lit(1, 10), Lit(1, 100)}
Starts == {Lit(1, 10), Lit(1, 2), One}

SeqsUpTo(S, n) == UNION {[1..k -> S] : k \in 0..n}
MilestoneSeqs == SeqsUpTo(1..MaxMilestone, MaxLen)
GammaSeqs == SeqsUpTo(GammaVals, MaxLen)
Epochs == {None} \cup (0..MaxEpoch)

\* the tables of the schedules that get wrapped by a BurnInLR
Tables == {[milestones |-> <<>>, gamma |-> <<>>],
           [milestones |-> <<2>>, gamma |-> <<Lit(1, 10)>>],
           [milestones |-> <<1, 3>>, gamma |-> <<Lit(1, 10), Lit(1, 100)>>]}

VARIABLES
  param_groups,  \* optimizer.param_groups: per group its lr and initial_lr
  base,          \* the MultiStepMultiGammaLR object (BurnInLR's self.base)
  burn,          \* the BurnInLR object
  call           \* the last call made and how it ended

vars == <<param_groups, base, burn, call>>

NoSched == [status |-> "absent", milestones |-> <<>>, gamma |-> <<>>,
            base_lrs |-> <<>>, last_epoch |-> -1]
NoBurn == [status |-> "absent", steps |-> 0, start |-> FZero,
           base_lrs |-> <<>>, last_epoch |-> -1]
NoCall == [op |-> "none", epoch |-> None, err |-> "none", delegated |-> FALSE,
           milestones |-> <<>>, gamma |-> <<>>, steps |-> 0, start |-> FZero]

\* --------------------------------------- torch.optim.lr_scheduler.LRScheduler
\* __init__: with last_epoch == -1 every group gets initial_lr = lr unless it has
\* one; otherwise every group must have one already
InitialLrGroups(groups, last_epoch) ==
  IF last_epoch = -1
  THEN [err |-> "none",
        groups |-> [i \in DOMAIN groups |->
                      IF groups[i].initial_lr = Unset
                      THEN [groups[i] EXCEPT !.initial_lr = groups[i].lr]
                      ELSE groups[i]]]
  ELSE IF \E i \in DOMAIN groups : groups[i].initial_lr = Unset
       THEN [err |-> "KeyError", groups |-> groups]
       ELSE [err |-> "none", groups |-> groups]

BaseLrs(groups) == [i \in DOMAIN groups |-> groups[i].initial_lr]

\* step: the counter moves to epoch if one is given, else on by one
Advance(self, epoch) ==
  [self EXCEPT !.last_epoch = IF epoch = None THEN self.last_epoch + 1 ELSE epoch]

\* step: the rate vector is written into the parameter groups (zip)
ApplyLr(groups, values) ==
  [i \in DOMAIN groups |->
     IF i <= Len(values) THEN [groups[i] EXCEPT !.lr = values[i]] ELSE groups[i]]

\* ------------------------------------------------------ MultiStepMultiGammaLR
RECURSIVE Insert(_, _)
Insert(x, s) ==
  IF s = <<>> THEN <<x>>
  ELSE IF x < s[1] THEN <<x>> \o s ELSE <<s[1]>> \o Insert(x, Tail(s))

RECURSIVE sorted(_)
sorted(s) == IF s = <<>> THEN <<>> ELSE Insert(s[Len(s)], sorted(SubSeq(s, 1, Len(s) - 1)))

MilestonesOk(milestones) == milestones = sorted(milestones)

\* the length check left out
LengthsUnchecked(milestones, gamma) == TRUE

LengthsOk(milestones, gamma) == Len(milestones) = Len(gamma)

\* bisect.bisect_right(a, x): the loop of the standard library, on 0-based lo, hi
RECURSIVE BisectRightLoop(_, _, _, _)
BisectRightLoop(a, x, lo, hi) ==
  IF lo < hi
  THEN LET mid == (lo + hi) \div 2
       IN  IF x < a[mid + 1] THEN BisectRightLoop(a, x, lo, mid)
           ELSE BisectRightLoop(a, x, mid + 1, hi)
  ELSE lo

\* bisect_left in place of bisect_right: a[mid] < x moves lo
RECURSIVE BisectLeftLoop(_, _, _, _)
BisectLeftLoop(a, x, lo, hi) ==
  IF lo < hi
  THEN LET mid == (lo + hi) \div 2
       IN  IF a[mid + 1] < x THEN BisectLeftLoop(a, x, mid + 1, hi)
           ELSE BisectLeftLoop(a, x, lo, mid)
  ELSE lo

bisect_left(a, x) == BisectLeftLoop(a, x, 0, Len(a))

bisect_right(a, x) == BisectRightLoop(a, x, 0, Len(a))

\* the factors multiplied up: each gamma applied to the rate of the interval before
RECURSIVE GammaProduct(_, _)
GammaProduct(gamma, k) ==
  IF k = 1 THEN gamma[1] ELSE FMul(GammaProduct(gamma, k - 1), gamma[k])

MSGetLrCumulative(self) ==
  Pick({[err |-> "none", delegated |-> FALSE,
         values |-> [i \in DOMAIN self.base_lrs |->
                       FMul(self.base_lrs[i], GammaProduct(self.gamma, k + 1))]] :
          k \in {bisect_right(self.milestones, self.last_epoch)}})

\* get_lr of a schedule self (self.gamma is [1] + gamma)
MSGetLr(self) ==
  Pick({IF k + 1 > Len(self.gamma)
        THEN [err |-> "IndexError", values |-> <<>>, delegated |-> FALSE]
        ELSE [err |-> "none", delegated |-> FALSE,
              values |-> [i \in DOMAIN self.base_lrs |->
                            FMul(self.base_lrs[i], self.gamma[k + 1])]] :
          k \in {bisect_right(self.milestones, self.last_epoch)}})

\* the inherited step(epoch) of a schedule
MSStep(self, groups, epoch) ==
  Pick(UNION {{IF r.err # "none" THEN [err |-> r.err, self |-> s1, groups |-> groups]
               ELSE [err |-> "none", self |-> s1, groups |-> ApplyLr(groups, r.values)] :
                 r \in {MSGetLr(s1)}} :
              s1 \in {Advance(self, epoch)}})

\* MultiStepMultiGammaLR(optimizer, milestones, gamma), last_epoch = -1
MSInit(groups, milestones, gamma) ==
  IF ~MilestonesOk(milestones)
  THEN [err |-> "ValueError", self |-> NoSched, groups |-> groups]
  ELSE IF ~LengthsOk(milestones, gamma)
  THEN [err |-> "ValueError", self |-> NoSched, groups |-> groups]
  ELSE Pick({MSStep([status |-> "live", milestones |-> milestones,
                     gamma |-> <<One>> \o gamma, base_lrs |-> BaseLrs(g.groups),
                     last_epoch |-> -1],
                    g.groups, None) :
               g \in {InitialLrGroups(groups, -1)}})

\* -------------------------------------------------------------------- BurnInLR
\* the factor of the ramp at counter t: t * alpha + beta
RampFactor(steps, start, t) ==
  Pick({FAdd(FMul(IntToFloat(t), alpha), start) :
          alpha \in {FDivInt(FSub(One, start), steps)}})

\* the ramp ended one counter early: last_epoch < steps
BurnInGetLrStrict(self, b) ==
  IF self.steps = 0
  THEN [err |-> "ZeroDivisionError", values |-> <<>>, delegated |-> FALSE]
  ELSE IF self.last_epoch < self.steps
  THEN Pick({[err |-> "none", delegated |-> FALSE,
              values |-> [i \in DOMAIN self.base_lrs |-> FMul(self.base_lrs[i], f)]] :
               f \in {RampFactor(self.steps, self.start, self.last_epoch)}})
  ELSE [MSGetLr(b) EXCEPT !.delegated = TRUE]

\* alpha computed only inside the ramp branch
BurnInGetLrLazyAlpha(self, b) ==
  IF self.last_epoch <= self.steps
  THEN IF self.steps = 0
       THEN [err |-> "ZeroDivisionError", values |-> <<>>, delegated |-> FALSE]
       ELSE Pick({[err |-> "none", delegated |-> FALSE,
                   values |-> [i \in DOMAIN self.base_lrs |-> FMul(self.base_lrs[i], f)]] :
                    f \in {RampFactor(self.steps, self.start, self.last_epoch)}})
  ELSE [MSGetLr(b) EXCEPT !.delegated = TRUE]

\* get_lr of the wrapper self around the schedule b
BurnInGetLr(self, b) ==
  IF self.steps = 0
  THEN [err |-> "ZeroDivisionError", values |-> <<>>, delegated |-> FALSE]
  ELSE IF self.last_epoch <= self.steps
  THEN Pick({[err |-> "none", delegated |-> FALSE,
              values |-> [i \in DOMAIN self.base_lrs |-> FMul(self.base_lrs[i], f)]] :
               f \in {RampFactor(self.steps, self.start, self.last_epoch)}})
  ELSE [MSGetLr(b) EXCEPT !.delegated = TRUE]

\* the wrapped schedule's counter left as it was
BaseEpochStale(self, b, epoch) == b.last_epoch

\* the counter the wrapper gives the wrapped schedule at the end of step(epoch)
BaseEpoch(self, b, epoch) == IF epoch = None THEN b.last_epoch + 1 ELSE epoch

\* step(epoch) of the wrapper self around b
BurnInStepOp(self, b, groups, epoch) ==
  Pick(UNION {{IF r.err # "none"
               THEN [err |-> r.err, delegated |-> r.delegated, self |-> s1, b |-> b,
                     groups |-> groups]
               ELSE [err |-> "none", delegated |-> r.delegated, self |-> s1,
                     b |-> [b EXCEPT !.last_epoch = BaseEpoch(s1, b, epoch)],
                     groups |-> ApplyLr(groups, r.values)] :
                 r \in {BurnInGetLr(s1, b)}} :
              s1 \in {Advance(self, epoch)}})

\* BurnInLR(base, steps, start)
BurnInInit(b, groups, steps, start) ==
  Pick(UNION {{IF g.err # "none"
               THEN [err |-> g.err, delegated |-> FALSE, self |-> s, b |-> b,
                     groups |-> g.groups]
               ELSE BurnInStepOp([s EXCEPT !.base_lrs = BaseLrs(g.groups)], b,
                                 g.groups, None) :
                 g \in {InitialLrGroups(groups, b.last_epoch)}} :
              s \in {[status |-> "live", steps |-> steps, start |-> start,
                      base_lrs |-> <<>>, last_epoch |-> b.last_epoch]}})

\* --------------------------------------------------------------------- actions
FreshGroups == [i \in DOMAIN Lrs |-> [lr |-> Lrs[i], initial_lr |-> Unset]]

NewMultiStep(milestones, gamma) ==
  /\ base.status = "absent"
  /\ \E r \in {MSInit(param_groups, milestones, gamma)} :
       /\ base' = IF r.err = "none" THEN r.self ELSE [NoSched EXCEPT !.status = "failed"]
       /\ param_groups' = r.groups
       /\ call' = [NoCall EXCEPT !.op = "MultiStepMultiGammaLR", !.err = r.err,
                                 !.milestones = milestones, !.gamma = gamma]
  /\ UNCHANGED burn

MultiStepStep(epoch) ==
  /\ base.status = "live"
  /\ epoch = None => base.last_epoch < MaxEpoch
  /\ \E r \in {MSStep(base, param_groups, epoch)} :
       /\ base' = r.self
       /\ param_groups' = r.groups
       /\ call' = [NoCall EXCEPT !.op = "base.step", !.epoch = epoch, !.err = r.err]
  /\ UNCHANGED burn

NewBurnIn(steps, start) ==
  /\ base.status = "live"
  /\ burn.status = "absent"
  /\ base.last_epoch < MaxEpoch
  /\ \E r \in {BurnInInit(base, param_groups, steps, start)} :
       /\ burn' = IF r.err = "none" THEN r.self ELSE [r.self EXCEPT !.status = "failed"]
       /\ base' = r.b
       /\ param_groups' = r.groups
       /\ call' = [NoCall EXCEPT !.op = "BurnInLR", !.err = r.err,
                                 !.delegated = r.delegated,
                                 !.steps = steps, !.start = start]

BurnInStep(epoch) ==
  /\ burn.status = "live"
  /\ epoch = None => (burn.last_epoch < MaxEpoch /\ base.last_epoch < MaxEpoch)
  /\ \E r \in {BurnInStepOp(burn, base, param_groups, epoch)} :
       /\ burn' = r.self
       /\ base' = r.b
       /\ param_groups' = r.groups
       /\ call' = [NoCall EXCEPT !.op = "burn.step", !.epoch = epoch, !.err = r.err,
                                 !.delegated = r.delegated]

\* ------------------------------------------------------------- specifications
\* the piecewise schedule on its own
InitA ==
  /\ param_groups = FreshGroups
  /\ base = NoSched
  /\ burn = NoBurn
  /\ call = NoCall

NextA ==
  \/ \E m \in MilestoneSeqs, g \in GammaSeqs : NewMultiStep(m, g)
  \/ \E e \in Epochs : MultiStepStep(e)

SpecA == InitA /\ [][NextA]_vars

\* a schedule of Tables, constructed, then wrapped and stepped in any way
Init ==
  \E t \in Tables :
    \E r \in {MSInit(FreshGroups, t.milestones, t.gamma)} :
      /\ param_groups = r.groups
      /\ base = r.self
      /\ burn = NoBurn
      /\ call = [NoCall EXCEPT !.op = "MultiStepMultiGammaLR",
                               !.milestones = t.milestones, !.gamma = t.gamma]

Next ==
  \/ \E e \in Epochs : MultiStepStep(e)
  \/ \E n \in 0..MaxSteps, s \in Starts : NewBurnIn(n, s)
  \/ \E e \in Epochs : BurnInStep(e)

Spec == Init /\ [][Next]_vars

\* the same, the wrapped schedule stepped only through the wrapper once wrapped
NextW ==
  \/ \E e \in Epochs : (burn.status = "absent" /\ MultiStepStep(e))
  \/ \E n \in 0..MaxSteps, s \in Starts : NewBurnIn(n, s)
  \/ \E e \in Epochs : BurnInStep(e)

SpecW == Init /\ [][NextW]_vars

\* ---------------------------------------------------------------- properties
StrictlyIncreasing(ms) == \A j \in 1..(Len(ms) - 1) : ms[j] < ms[j + 1]

\* the number of milestones that are <= t
CountLe(ms, t) == Cardinality({j \in DOMAIN ms : ms[j] <= t})

Counters == (-1)..(MaxEpoch + 1)

Constructed == call.op = "MultiStepMultiGammaLR"

\* C1: for a table with strictly increasing milestones and as many gammas, get_lr
\* returns at every counter t and for every group i the rate base_rate_i * factor[k],
\* factor = [1.0] + gamma and k the number of milestones <= t: the base rate itself
\* before the first milestone, and gamma[j] already at t = milestones[j].
C1_GetLrIsBaseTimesFactor ==
  (base.status = "live" /\ StrictlyIncreasing(base.milestones)) =>
    /\ Constructed =>
         /\ base.milestones = call.milestones
         /\ base.gamma = <<One>> \o call.gamma
    /\ base.base_lrs = Lrs
    /\ \A t \in Counters :
         \E r \in {MSGetLr([base EXCEPT !.last_epoch = t])} :
           /\ r.err = "none"
           /\ DOMAIN r.values = DOMAIN Lrs
           /\ \A i \in DOMAIN Lrs :
                /\ r.values[i] = FMul(Lrs[i], base.gamma[CountLe(base.milestones, t) + 1])
                /\ (base.milestones # <<>> /\ t < base.milestones[1])
                     => r.values[i] = Lrs[i]
                /\ base.milestones = <<>> => r.values[i] = Lrs[i]
                /\ \A j \in DOMAIN base.milestones :
                     t = base.milestones[j] => r.values[i] = FMul(Lrs[i], base.gamma[j + 1])

C1_Witness ==
  /\ base.status = "live"
  /\ Len(base.milestones) = 2
  /\ StrictlyIncreasing(base.milestones)
  /\ base.gamma[2] # base.gamma[3]
  /\ call.op = "base.step"
  /\ base.last_epoch = base.milestones[1]
  /\ param_groups[1].lr = FMul(Lrs[1], base.gamma[2])
  /\ param_groups[1].lr # Lrs[1]

\* C2: after any sequence of step calls on a MultiStepMultiGammaLR, with or without
\* an epoch, the rate of every parameter group is base_rate_i * factor[number of
\* milestones <= counter]: a function of the counter and the base rate alone, the
\* factors of earlier intervals not multiplied in.
C2_RateDependsOnCounterOnly ==
  base.status = "live" =>
    /\ base.last_epoch >= 0
    /\ \A i \in DOMAIN Lrs :
         /\ param_groups[i].initial_lr = Lrs[i]
         /\ param_groups[i].lr =
              FMul(Lrs[i], base.gamma[CountLe(base.milestones, base.last_epoch) + 1])

C2_Witness ==
  /\ base.status = "live"
  /\ Len(base.milestones) = 2
  /\ call.op = "base.step"
  /\ call.epoch # None
  /\ base.last_epoch >= base.milestones[2]
  /\ param_groups[1].lr = FMul(Lrs[1], base.gamma[3])
  /\ param_groups[1].lr # FMul(FMul(Lrs[1], base.gamma[2]), base.gamma[3])

\* C3: constructing with milestones that are not strictly increasing (two equal
\* neighbours, or a descending pair) fails with the invalid-configuration error,
\* for every gamma of the same length.
C3_NotStrictlyIncreasingRejected ==
  (Constructed /\ Len(call.gamma) = Len(call.milestones)
     /\ ~StrictlyIncreasing(call.milestones)) =>
    (call.err = "ValueError" /\ base.status = "failed")

\* C4: constructing with len(milestones) # len(gamma) fails with the
\* invalid-configuration error before any schedule state is created and before
\* any rate of the optimizer is written.
C4_LengthMismatchRejected ==
  (Constructed /\ Len(call.milestones) # Len(call.gamma)) =>
    /\ call.err = "ValueError"
    /\ base = [NoSched EXCEPT !.status = "failed"]
    /\ param_groups = FreshGroups

C4_Witness ==
  /\ Constructed
  /\ Len(call.milestones) = 2
  /\ Len(call.gamma) = 1
  /\ StrictlyIncreasing(call.milestones)
  /\ call.err = "ValueError"
  /\ base.status = "failed"

\* the rate base_rate_i * factor[number of milestones <= t] of the wrapped schedule
InnerRateAt(t) ==
  [i \in DOMAIN Lrs |-> FMul(Lrs[i], base.gamma[CountLe(base.milestones, t) + 1])]

Lr == [i \in DOMAIN param_groups |-> param_groups[i].lr]

ByWrapper == call.op \in {"BurnInLR", "burn.step"}

\* 2^-50, and the floats 1 - 2^-50 and 1 + 2^-50
Tolerance == [m |-> BShl(<<1>>, MantBits - 1), e |-> 0 - 50 - (MantBits - 1)]
NearOneLow == FSub(One, Tolerance)
NearOneHigh == FAdd(One, Tolerance)

\* C5 as stated: for steps >= 1, start in (0,1] and 0 <= t <= steps the rate is
\* base_rate_i * (t*alpha + start), alpha = (1 - start)/steps; start*base_rate_i
\* at t = 0, exactly 1.0*base_rate_i at t = steps, non-decreasing in t.  The part
\* that fails: the rate a step to t = steps writes is exactly the base rate.
C5_RampEndsExactlyAtBase ==
  (burn.status = "live" /\ ByWrapper /\ burn.last_epoch = burn.steps) =>
    \A i \in DOMAIN Lrs : param_groups[i].lr = Lrs[i]

\* C5 amended: for 0 <= t <= steps (t = steps included) get_lr returns
\* base_rate_i * (t*alpha + start) in double arithmetic, without consulting the
\* wrapped schedule; that is start*base_rate_i at t = 0, non-decreasing in t, and at
\* t = steps within a relative 2^-50 of base_rate_i, not always base_rate_i itself.
C5_Ramp ==
  burn.status = "live" =>
    /\ burn.steps >= 1
    /\ burn.base_lrs = Lrs
    /\ (ByWrapper /\ burn.last_epoch <= burn.steps) =>
         Lr = [i \in DOMAIN Lrs |->
                 FMul(Lrs[i], RampFactor(burn.steps, burn.start, burn.last_epoch))]
    /\ \A t \in 0..burn.steps :
         \E r \in {BurnInGetLr([burn EXCEPT !.last_epoch = t], base)},
            f \in {FAdd(FMul(IntToFloat(t), FDivInt(FSub(One, burn.start), burn.steps)),
                        burn.start)} :
           /\ r.err = "none"
           /\ ~r.delegated
           /\ DOMAIN r.values = DOMAIN Lrs
           /\ \A i \in DOMAIN Lrs :
                /\ r.values[i] = FMul(Lrs[i], f)
                /\ t = 0 => r.values[i] = FMul(Lrs[i], burn.start)
                /\ t < burn.steps =>
                     FLe(r.values[i],
                         BurnInGetLr([burn EXCEPT !.last_epoch = t + 1], base).values[i])
                /\ t = burn.steps =>
                     /\ FLe(FMul(Lrs[i], NearOneLow), r.values[i])
                     /\ FLe(r.values[i], FMul(Lrs[i], NearOneHigh))

C5_Witness ==
  /\ burn.status = "live"
  /\ call.op = "burn.step"
  /\ burn.steps = 3
  /\ burn.start = Lit(1, 10)
  /\ burn.last_epoch = burn.steps
  /\ Lr[1] = FMul(Lrs[1], RampFactor(3, Lit(1, 10), 3))
  /\ Lr[1] # Lrs[1]
  /\ FLe(Lr[1], Lrs[1])

\* C6: once wrapper.step has moved the wrapper to a counter t > steps, get_lr of
\* the wrapper returns the wrapped schedule's rates at counter t, with no ramp
\* factor; t = steps + 1 is the first counter that is delegated.
C6_DelegatesAtWrapperCounter ==
  (burn.status = "live" /\ ByWrapper) =>
    \E r \in {BurnInGetLr(burn, base)} :
      /\ r.err = "none"
      /\ r.delegated = (burn.last_epoch > burn.steps)
      /\ burn.last_epoch > burn.steps => r.values = InnerRateAt(burn.last_epoch)

C6_Witness ==
  /\ burn.status = "live"
  /\ call.op = "burn.step"
  /\ burn.last_epoch = burn.steps + 1
  /\ base.milestones # <<>>
  /\ burn.last_epoch = base.milestones[Len(base.milestones)]
  /\ BurnInGetLr(burn, base).values = InnerRateAt(burn.last_epoch)
  /\ InnerRateAt(burn.last_epoch) # InnerRateAt(burn.last_epoch - 1)

\* C7: every call wrapper.step(epoch?), from any prior state, also one in which
\* the wrapped schedule was stepped on its own, returns with
\* inner.counter = wrapper.counter.
C7_StepSynchronises ==
  (burn.status = "live" /\ call.op = "burn.step") =>
    base.last_epoch = burn.last_epoch

\* C8: a call wrapper.step(epoch?) that moves the wrapper to t > steps writes into
\* each parameter group the wrapped schedule's rate at counter t, so that a
\* milestone at t takes effect at step t.
C8_AppliedRateIsInnerRateAtT ==
  (burn.status = "live" /\ call.op = "burn.step" /\ burn.last_epoch > burn.steps) =>
    Lr = InnerRateAt(burn.last_epoch)

\* C9: when the wrapped schedule is advanced only through wrapper.step, then in
\* every state from construction on inner.counter = wrapper.counter, and a call
\* wrapper.step leaves the wrapper's counter at its epoch if one was given, else
\* at the previous value plus one.
C9_CountersAgree ==
  /\ [](burn.status = "live" => base.last_epoch = burn.last_epoch)
  /\ [][(burn.status = "live" /\ call'.op = "burn.step") =>
          /\ burn'.status = "live"
          /\ burn'.last_epoch =
               IF call'.epoch = None THEN burn.last_epoch + 1 ELSE call'.epoch]_vars

C9_Witness ==
  /\ burn.status = "live"
  /\ call.op = "burn.step"
  /\ call.epoch # None
  /\ burn.last_epoch = call.epoch
  /\ base.last_epoch = call.epoch
  /\ call.epoch = 1

\* C10: BurnInLR checks neither steps nor start; with steps = 0 get_lr fails with a
\* division by zero at every counter, also at t > 0 where the rate would be
\* delegated: no rate vector is returned and the wrapped schedule is not consulted.
C10_ZeroStepsDivides ==
  /\ (call.op = "BurnInLR" /\ call.steps = 0) =>
       /\ call.err = "ZeroDivisionError"
       /\ ~call.delegated
       /\ burn.status = "failed"
       /\ burn.last_epoch > burn.steps
  /\ (burn.status # "absent" /\ burn.steps = 0) =>
       /\ burn.status = "failed"
       /\ \A t \in 0..(MaxEpoch + 1) :
            \E r \in {BurnInGetLr([burn EXCEPT !.last_epoch = t], base)} :
              /\ r.err = "ZeroDivisionError"
              /\ r.values = <<>>
              /\ ~r.delegated

C10_Witness ==
  /\ call.op = "BurnInLR"
  /\ call.steps = 0
  /\ call.err = "ZeroDivisionError"
  /\ burn.status = "failed"
  /\ burn.last_epoch > 0
  /\ base.milestones # <<>>
====
